---- MODULE Spec2Model ----
(***************************************************************************)
(* cellulose: a forward-auth daemon.  The model covers                     *)
(*   - KeyStore (src/key_store.rs): a tokio RwLock around the JWKS key set *)
(*     with should_refresh / refresh / still_valid / verify;               *)
(*   - the /auth handler (src/lib.rs), one process per in-flight request,  *)
(*     split at every access to shared state;                              *)
(*   - the policy cache cel_programs (src/lib.rs), a parking_lot RwLock    *)
(*     taken with upgradable_read();                                       *)
(*   - the refresh task spawned by main (src/main.rs).                     *)
(* Time is the wall clock in seconds, advanced in steps of ClockStep.      *)
(***************************************************************************)
EXTENDS Integers, FiniteSets, Sequences, TLC

\* ------------------------------------------------------------------ bounds
ClockStep == 200
MaxClockSteps == 2
MaxAge == 100
\* Last instant at which the key-set questions are asked in KeySpec
MaxProbeNow == 560
\* Most header fields of a request in HeaderSpec
MaxHeaders == 3

\* ------------------------------------------------------- program constants
\* key_store.rs:12  MAX_JWKS_VALIDITY = 5 * 60 seconds
MAX_JWKS_VALIDITY == 300

None == -1

\* In-flight /auth requests and concurrent callers of KeyStore::refresh
Requests == {1, 2}
Refreshers == {1, 2}
\* The daemon as main wires it is checked with one request slot.
MainRequests == {1}

\* Bearer tokens a request may carry: one the key set verifies, one it rejects
\* (bad signature, expired, wrong issuer or audience).
Tokens == {"good", "bad"}
\* Policy sources (cel_str): absent, or one of three strings that differ in what
\* compile and execute make of them.
CelStrs == {"request_headers.foo == 'bar'", "1", "("}
CelParams == {"absent"} \cup CelStrs
\* The request's foo header, which the first policy reads from the context.
FooHeaders == {"bar", "baz", "missing"}
\* refresh_interval of the key set, in percent (0.5 and 1.0)
RefreshIntervals == {50, 100}

VARIABLES now, ks, ksWriter, refr, task, req, cel_programs, upgr, compiles,
          probe, header_map, parsed

vars == <<now, ks, ksWriter, refr, task, req, cel_programs, upgr, compiles,
          probe, header_map, parsed>>

\* ------------------------------------------------------ pure operators
\* cel_interpreter::Program::compile: every source but "(" compiles.
Compiles(cel) == cel # "("

\* Program::execute against the request's context: Ok(Bool), Ok(other value)
\* or Err (the header the policy reads is not in request_headers).
Execute(cel, foo) ==
    IF cel = "1" THEN "nonbool"
    ELSE CASE foo = "bar" -> "true"
           [] foo = "baz" -> "false"
           [] OTHER -> "error"

\* ResultStatus with the two booleans matched alike.
ResultStatusAnyBool(res) ==
    CASE res = "error" -> 500
      [] res = "true" -> 200
      [] res = "false" -> 200
      [] OTHER -> 500

\* lib.rs:141-153: execution error -> 500; Bool(true) -> 200; Bool(false) -> 401;
\* anything else -> 500.
ResultStatus(res) ==
    CASE res = "error" -> 500
      [] res = "true" -> 200
      [] res = "false" -> 401
      [] OTHER -> 500

\* jwt_simple_jwks keys_expired(): Some(expire_time <= now) when the last fetch
\* carried a max-age, None (here "none") otherwise.
keys_expired(k, t) ==
    IF k.expire_time = None THEN "none"
    ELSE IF k.expire_time <= t THEN "true" ELSE "false"

\* jwt_simple_jwks should_refresh_time(now)
should_refresh_time(k, t) ==
    IF k.refresh_time = None THEN "none"
    ELSE IF k.refresh_time <= t THEN "true" ELSE "false"

\* still_valid with the ceiling scaled by refresh_interval like the refresh window.
still_valid_scaled(k, t) ==
    IF k.last_load_time # None
    THEN ~ (IF keys_expired(k, t) # "none"
            THEN keys_expired(k, t) = "true"
            ELSE t > k.last_load_time
                     + ((MAX_JWKS_VALIDITY * k.refresh_interval) \div 100))
    ELSE FALSE

\* KeyStore::still_valid, key_store.rs:49-63
still_valid(k, t) ==
    IF k.last_load_time # None
    THEN ~ (IF keys_expired(k, t) # "none"
            THEN keys_expired(k, t) = "true"
            ELSE t > k.last_load_time + MAX_JWKS_VALIDITY)
    ELSE FALSE

\* should_refresh with the multiplier taken as a factor, not as a fraction.
should_refresh_unit_slip(k, t) ==
    IF k.last_load_time # None
    THEN IF should_refresh_time(k, t) # "none"
         THEN should_refresh_time(k, t) = "true"
         ELSE t > k.last_load_time + MAX_JWKS_VALIDITY * k.refresh_interval
    ELSE TRUE

\* should_refresh with the multiplier left out of the fallback window.
should_refresh_unscaled(k, t) ==
    IF k.last_load_time # None
    THEN IF should_refresh_time(k, t) # "none"
         THEN should_refresh_time(k, t) = "true"
         ELSE t > k.last_load_time + MAX_JWKS_VALIDITY
    ELSE TRUE

\* KeyStore::should_refresh, key_store.rs:23-41; the f64 product is cast to u64.
should_refresh(k, t) ==
    IF k.last_load_time # None
    THEN IF should_refresh_time(k, t) # "none"
         THEN should_refresh_time(k, t) = "true"
         ELSE t > k.last_load_time
                  + ((MAX_JWKS_VALIDITY * k.refresh_interval) \div 100)
    ELSE TRUE

\* KeyStore::verify, key_store.rs:68-77: delegates to the held key set; the key
\* set does not look at its own expiry, only at the token.
verify(k, token) == token = "good" /\ k.keys # None

\* A key set is whole when its keys and its timestamps come from the same fetch.
Whole(k) == k.keys = k.last_load_time

\* ReadFree with reads that do not take the lock.
ReadUnlocked == TRUE

\* tokio RwLock of the KeyStore: a read is admitted when no writer holds it.
ReadFree == ksWriter = 0
\* ... and a write when nobody holds it (reads are single steps here, so no
\* reader is ever inside when another process moves).
WriteFree == ksWriter = 0

\* UpgradableFree with read() in place of upgradable_read(): readers share.
PlainReadFree == TRUE

\* parking_lot upgradable_read(): admitted when no other upgradable reader and
\* no writer holds the lock; plain readers would not exclude it.
UpgradableFree == upgr = 0

\* ----------------------------------------------------------------- Init
IdleReq ==
    [pc |-> "idle", bearer |-> FALSE, cel |-> "absent", sv |-> "none",
     vr |-> "none", expiredAtVerify |-> FALSE, whole |-> TRUE,
     prog |-> "none", res |-> "none", resp |-> 0]

IdleRefr == [pc |-> "idle", load_time |-> None, max_age |-> None, whole |-> TRUE]

\* No should_refresh()/still_valid() answer recorded, no header map parsed.
NoProbe == [asked |-> FALSE, at |-> 0, valid |-> FALSE, due |-> FALSE]
NotParsed == [done |-> FALSE, map |-> << >>]

\* The key set after a load at time 0 whose answer carried max-age ma (or none).
Loaded(ri, ma) ==
    [keys |-> 0, last_load_time |-> 0,
     expire_time |-> IF ma = None THEN None ELSE ma,
     refresh_time |-> IF ma = None THEN None ELSE (ma * ri) \div 100,
     refresh_interval |-> ri]

\* main.rs:60: KeyStore::new_from has loaded the keys once before serving.
InitWith(ris) ==
    /\ now = 0
    /\ \E ri \in ris, ma \in {None, MaxAge} : ks = Loaded(ri, ma)
    /\ probe = NoProbe
    /\ header_map = << >>
    /\ parsed = NotParsed

\* ---------------------------------------------------------------- clock
AdvanceClock ==
    /\ now + ClockStep <= MaxClockSteps * ClockStep
    /\ now' = now + ClockStep
    /\ UNCHANGED <<ks, ksWriter, refr, task, req, cel_programs, upgr, compiles>>
    /\ UNCHANGED <<probe, header_map, parsed>>

\* ------------------------------------------------- KeyStore::refresh
\* key_store.rs:23-41 and 43: "Callers should use should_refresh first": a
\* caller asks should_refresh() and goes on to refresh() when it says so.
RefreshDue(r) ==
    /\ refr[r].pc = "idle"
    /\ ReadFree
    /\ refr' = [refr EXCEPT ![r].pc = IF should_refresh(ks, now) THEN "due" ELSE "idle",
                            ![r].whole = Whole(ks)]
    /\ UNCHANGED <<now, ks, ksWriter, task, req, cel_programs, upgr, compiles>>
    /\ UNCHANGED <<probe, header_map, parsed>>

\* key_store.rs:44: self.inner.write().await
RefreshLock(r) ==
    /\ refr[r].pc = "due"
    /\ WriteFree
    /\ ksWriter' = r
    /\ refr' = [refr EXCEPT ![r].pc = "fetching"]
    /\ UNCHANGED <<now, ks, task, req, cel_programs, upgr, compiles>>
    /\ UNCHANGED <<probe, header_map, parsed>>

\* key_store.rs:45: load_keys().await, the fetch answered: the new keys are
\* stored first, the timestamps of the same fetch follow in RefreshStore.  The
\* JWKS endpoint sends its max-age on every answer or on none.
RefreshFetched(r) ==
    /\ refr[r].pc = "fetching"
    /\ LET ma == IF ks.expire_time = None THEN None ELSE MaxAge
       IN refr' = [refr EXCEPT ![r] = [pc |-> "storing", load_time |-> now,
                                       max_age |-> ma, whole |-> refr[r].whole]]
    /\ ks' = [ks EXCEPT !.keys = now]
    /\ UNCHANGED <<now, ksWriter, task, req, cel_programs, upgr, compiles>>
    /\ UNCHANGED <<probe, header_map, parsed>>

\* key_store.rs:45-47: load_keys() returns Ok, the write guard is dropped.
RefreshStore(r) ==
    /\ refr[r].pc = "storing"
    /\ LET lt == refr[r].load_time
           ma == refr[r].max_age
       IN ks' = [ks EXCEPT
                    !.last_load_time = lt,
                    !.expire_time = IF ma = None THEN None ELSE lt + ma,
                    !.refresh_time = IF ma = None THEN None
                                     ELSE lt + ((ma * ks.refresh_interval) \div 100)]
    /\ ksWriter' = 0
    /\ refr' = [refr EXCEPT ![r] = IdleRefr]
    /\ UNCHANGED <<now, task, req, cel_programs, upgr, compiles>>
    /\ UNCHANGED <<probe, header_map, parsed>>

\* key_store.rs:45-47: the fetch failed, load_keys() returns Err, the write
\* guard is dropped and the held key set is as before.
RefreshFailed(r) ==
    /\ refr[r].pc = "fetching"
    /\ ksWriter' = 0
    /\ refr' = [refr EXCEPT ![r] = IdleRefr]
    /\ UNCHANGED <<now, ks, task, req, cel_programs, upgr, compiles>>
    /\ UNCHANGED <<probe, header_map, parsed>>

\* ------------------------------------------------- the refresh task of main
\* main.rs:73: interval.tick().await completes
TimerTick ==
    /\ task.pc = "tick"
    /\ task' = [pc |-> "check", retry |-> "none", attempts |-> 0]
    /\ UNCHANGED <<now, ks, ksWriter, refr, req, cel_programs, upgr, compiles>>
    /\ UNCHANGED <<probe, header_map, parsed>>

\* main.rs:74: key_store.should_refresh().await
CheckRefresh ==
    /\ task.pc = "check"
    /\ ReadFree
    /\ task' = [task EXCEPT !.pc = IF should_refresh(ks, now) THEN "spawn" ELSE "tick"]
    /\ UNCHANGED <<now, ks, ksWriter, refr, req, cel_programs, upgr, compiles>>
    /\ UNCHANGED <<probe, header_map, parsed>>

\* main.rs:75-82: Retry::spawn(retry_strategy, action); builds the retry future
\* and the statement drops it: it is neither awaited nor handed to tokio::spawn,
\* so refresh() is never polled and attempts stays what it was.
SpawnRetry ==
    /\ task.pc = "spawn"
    /\ task' = [task EXCEPT !.pc = "tick", !.retry = "dropped"]
    /\ UNCHANGED <<now, ks, ksWriter, refr, req, cel_programs, upgr, compiles>>
    /\ UNCHANGED <<probe, header_map, parsed>>

\* ------------------------------------------------------ the /auth handler
Done(q, status) == [req EXCEPT ![q].pc = "done", ![q].resp = status]

\* lib.rs:54-68: a request arrives; without a bearer token it is answered 401.
Start(q) ==
    /\ req[q].pc \in {"idle", "done"}
    /\ \E bearer \in BOOLEAN :
         req' = [req EXCEPT ![q] =
                    IF bearer
                    THEN [IdleReq EXCEPT !.pc = "still_valid", !.bearer = TRUE]
                    ELSE [IdleReq EXCEPT !.pc = "done", !.resp = 401]]
    /\ UNCHANGED <<now, ks, ksWriter, refr, task, cel_programs, upgr, compiles>>
    /\ UNCHANGED <<probe, header_map, parsed>>

\* StillValid that reloads expired keys itself before it answers.
StillValidRefreshes(q) ==
    /\ req[q].pc = "still_valid"
    /\ ReadFree
    /\ LET v == still_valid(ks, now)
       IN /\ req' = [req EXCEPT
                       ![q].sv = "true",
                       ![q].whole = Whole(ks),
                       ![q].pc = "verify"]
          /\ ks' = IF v THEN ks
                   ELSE [ks EXCEPT !.keys = now, !.last_load_time = now,
                                   !.expire_time = None, !.refresh_time = None]
    /\ UNCHANGED <<now, ksWriter, refr, task, cel_programs, upgr, compiles>>
    /\ UNCHANGED <<probe, header_map, parsed>>

\* StillValid with the expired-keys answer sent as a denial.
StillValidDenies(q) ==
    /\ req[q].pc = "still_valid"
    /\ ReadFree
    /\ LET v == still_valid(ks, now)
       IN req' = [req EXCEPT
                    ![q].sv = IF v THEN "true" ELSE "false",
                    ![q].whole = Whole(ks),
                    ![q].pc = IF v THEN "verify" ELSE "done",
                    ![q].resp = IF v THEN 0 ELSE 401]
    /\ UNCHANGED <<now, ks, ksWriter, refr, task, cel_programs, upgr, compiles>>
    /\ UNCHANGED <<probe, header_map, parsed>>

\* lib.rs:73-76
StillValid(q) ==
    /\ req[q].pc = "still_valid"
    /\ ReadFree
    /\ LET v == still_valid(ks, now)
       IN req' = [req EXCEPT
                    ![q].sv = IF v THEN "true" ELSE "false",
                    ![q].whole = Whole(ks),
                    ![q].pc = IF v THEN "verify" ELSE "done",
                    ![q].resp = IF v THEN 0 ELSE 500]
    /\ UNCHANGED <<now, ks, ksWriter, refr, task, cel_programs, upgr, compiles>>
    /\ UNCHANGED <<probe, header_map, parsed>>

\* lib.rs:79-98: verify the token, then look at cel_str.  The token's content
\* and the cel_str parameter are inputs of the request, first read here.
Verify(q) ==
    /\ req[q].pc = "verify"
    /\ ReadFree
    /\ \E token \in Tokens, cel \in CelParams :
         LET ok == verify(ks, token)
             next == IF ~ok \/ cel = "absent" THEN "done" ELSE "lookup"
         IN req' = [req EXCEPT
                      ![q].vr = IF ok THEN "true" ELSE "false",
                      ![q].cel = cel,
                      ![q].expiredAtVerify = ~still_valid(ks, now),
                      ![q].whole = req[q].whole /\ Whole(ks),
                      ![q].pc = next,
                      ![q].resp = IF next = "done" THEN 401 ELSE 0]
    /\ UNCHANGED <<now, ks, ksWriter, refr, task, cel_programs, upgr, compiles>>
    /\ UNCHANGED <<probe, header_map, parsed>>

\* lib.rs:122-125: upgradable_read(), then programs.get(&cel_str)
Lookup(q) ==
    /\ req[q].pc = "lookup"
    /\ UpgradableFree
    /\ upgr' = q
    /\ req' = [req EXCEPT
                 ![q].prog = IF req[q].cel \in cel_programs THEN "hit" ELSE "none",
                 ![q].pc = IF req[q].cel \in cel_programs THEN "execute" ELSE "compile"]
    /\ UNCHANGED <<now, ks, ksWriter, refr, task, cel_programs, compiles>>
    /\ UNCHANGED <<probe, header_map, parsed>>

\* CompileProgram with the failed source remembered in the cache.
CompileProgramCachesFailure(q) ==
    /\ req[q].pc = "compile"
    /\ IF Compiles(req[q].cel)
       THEN /\ req' = [req EXCEPT ![q].prog = "compiled", ![q].pc = "execute"]
            /\ compiles' = [compiles EXCEPT ![req[q].cel] = @ + 1]
            /\ UNCHANGED <<upgr, cel_programs>>
       ELSE /\ req' = [req EXCEPT ![q].prog = "failed", ![q].pc = "done",
                                  ![q].resp = 500]
            /\ upgr' = 0
            /\ cel_programs' = cel_programs \cup {req[q].cel}
            /\ UNCHANGED compiles
    /\ UNCHANGED <<now, ks, ksWriter, refr, task>>
    /\ UNCHANGED <<probe, header_map, parsed>>

\* lib.rs:127-130: Program::compile; on failure return 500 (the guard drops).
CompileProgram(q) ==
    /\ req[q].pc = "compile"
    /\ IF Compiles(req[q].cel)
       THEN /\ req' = [req EXCEPT ![q].prog = "compiled", ![q].pc = "execute"]
            /\ compiles' = [compiles EXCEPT ![req[q].cel] = @ + 1]
            /\ UNCHANGED upgr
       ELSE /\ req' = [req EXCEPT ![q].prog = "failed", ![q].pc = "done",
                                  ![q].resp = 500]
            /\ upgr' = 0
            /\ UNCHANGED compiles
    /\ UNCHANGED <<now, ks, ksWriter, refr, task, cel_programs>>
    /\ UNCHANGED <<probe, header_map, parsed>>

\* ExecuteProgram with the execution error returned before the insert.
ExecuteProgramReturnsEarly(q) ==
    /\ req[q].pc = "execute"
    /\ \E foo \in FooHeaders :
       LET r == Execute(req[q].cel, foo)
       IN IF req[q].prog = "hit" \/ r = "error"
          THEN /\ req' = [req EXCEPT ![q].res = r, ![q].pc = "done",
                                     ![q].resp = ResultStatus(r)]
               /\ upgr' = 0
          ELSE /\ req' = [req EXCEPT ![q].res = r, ![q].pc = "insert"]
               /\ UNCHANGED upgr
    /\ UNCHANGED <<now, ks, ksWriter, refr, task, cel_programs, compiles>>
    /\ UNCHANGED <<probe, header_map, parsed>>

\* lib.rs:124 (hit) and lib.rs:133 (miss): program.execute(&context); on a hit
\* the handler goes on to lib.rs:141-153 and returns.
ExecuteProgram(q) ==
    /\ req[q].pc = "execute"
    /\ \E foo \in FooHeaders :
       LET r == Execute(req[q].cel, foo)
       IN IF req[q].prog = "hit"
          THEN /\ req' = [req EXCEPT ![q].res = r, ![q].pc = "done",
                                     ![q].resp = ResultStatus(r)]
               /\ upgr' = 0
          ELSE /\ req' = [req EXCEPT ![q].res = r, ![q].pc = "insert"]
               /\ UNCHANGED upgr
    /\ UNCHANGED <<now, ks, ksWriter, refr, task, cel_programs, compiles>>
    /\ UNCHANGED <<probe, header_map, parsed>>

\* UpgradeFree with write() called while the upgradable guard is still held:
\* it waits for every guard, the caller's own included.
WriteWhileHolding(q) == upgr = 0

\* parking_lot with_upgraded(): the upgrade waits until the plain readers have
\* left; no code path takes a plain read() of cel_programs, so none is inside.
UpgradeFree(q) == upgr = q

\* InsertProgram with a cache that keeps the newest program only.
InsertProgramEvicts(q) ==
    /\ req[q].pc = "insert"
    /\ UpgradeFree(q)
    /\ cel_programs' = {req[q].cel}
    /\ req' = Done(q, ResultStatus(req[q].res))
    /\ upgr' = 0
    /\ UNCHANGED <<now, ks, ksWriter, refr, task, compiles>>
    /\ UNCHANGED <<probe, header_map, parsed>>

\* lib.rs:136-153: with_upgraded(insert), then the result is mapped to the
\* response and the guard is dropped on return.
InsertProgram(q) ==
    /\ req[q].pc = "insert"
    /\ UpgradeFree(q)
    /\ cel_programs' = cel_programs \cup {req[q].cel}
    /\ req' = Done(q, ResultStatus(req[q].res))
    /\ upgr' = 0
    /\ UNCHANGED <<now, ks, ksWriter, refr, task, compiles>>
    /\ UNCHANGED <<probe, header_map, parsed>>

\* ------------------------------------------------------- specifications
\* KeyStore and the router as the library exports them: any number of callers
\* of refresh(), concurrent /auth requests, the clock.
Init ==
    /\ InitWith({50})
    /\ ksWriter = 0
    /\ refr = [r \in Refreshers |-> IdleRefr]
    /\ task = [pc |-> "tick", retry |-> "none", attempts |-> 0]
    /\ req = [q \in Requests |-> IdleReq]
    /\ cel_programs = {}
    /\ upgr = 0
    /\ compiles = [c \in CelStrs |-> 0]

Next ==
    \/ AdvanceClock
    \/ \E r \in Refreshers : RefreshDue(r)
    \/ \E r \in Refreshers : RefreshLock(r)
    \/ \E r \in Refreshers : RefreshFetched(r)
    \/ \E r \in Refreshers : RefreshStore(r)
    \/ \E r \in Refreshers : RefreshFailed(r)
    \/ \E q \in Requests : Start(q)
    \/ \E q \in Requests : StillValid(q)
    \/ \E q \in Requests : Verify(q)
    \/ \E q \in Requests : Lookup(q)
    \/ \E q \in Requests : CompileProgram(q)
    \/ \E q \in Requests : ExecuteProgram(q)
    \/ \E q \in Requests : InsertProgram(q)

Spec == Init /\ [][Next]_vars

\* The daemon as main.rs wires it: the only caller of refresh() is the retry
\* future of the refresh task.  The timer, the task and the clock are scheduled
\* by the runtime, hence weakly fair.
InitMain ==
    /\ InitWith(RefreshIntervals)
    /\ ksWriter = 0
    /\ refr = [r \in Refreshers |-> IdleRefr]
    /\ task = [pc |-> "tick", retry |-> "none", attempts |-> 0]
    /\ req = [q \in Requests |-> IdleReq]
    /\ cel_programs = {}
    /\ upgr = 0
    /\ compiles = [c \in CelStrs |-> 0]

NextMain ==
    \/ AdvanceClock
    \/ TimerTick
    \/ CheckRefresh
    \/ SpawnRetry
    \/ \E q \in MainRequests : Start(q)
    \/ \E q \in MainRequests : StillValid(q)
    \/ \E q \in MainRequests : Verify(q)
    \/ \E q \in MainRequests : Lookup(q)
    \/ \E q \in MainRequests : CompileProgram(q)
    \/ \E q \in MainRequests : ExecuteProgram(q)
    \/ \E q \in MainRequests : InsertProgram(q)

MainSpec ==
    /\ InitMain
    /\ [][NextMain]_vars
    /\ WF_vars(TimerTick) /\ WF_vars(CheckRefresh) /\ WF_vars(SpawnRetry)

\* The key-set questions on their own: should_refresh() and still_valid() are
\* asked of every key set the Option and the fields admit, at every instant up
\* to MaxProbeNow.
LoadTimes == {0, 100}
ProbeIntervals == {0, 50, 100, 150}

\* A key set loaded at lt from an answer with max-age ma (or without).
LoadedAt(lt, ri, ma) ==
    [keys |-> lt, last_load_time |-> lt,
     expire_time |-> IF ma = None THEN None ELSE lt + ma,
     refresh_time |-> IF ma = None THEN None ELSE lt + ((ma * ri) \div 100),
     refresh_interval |-> ri]

\* A key set into which nothing has been loaded: last_load_time() is None.
Unloaded(ri) ==
    [keys |-> None, last_load_time |-> None, expire_time |-> None,
     refresh_time |-> None, refresh_interval |-> ri]

KeySets ==
    {Unloaded(ri) : ri \in ProbeIntervals}
        \cup {LoadedAt(lt, ri, ma) :
                lt \in LoadTimes, ri \in ProbeIntervals, ma \in {None, MaxAge}}

InitKey ==
    /\ now = 0
    /\ ks \in KeySets
    /\ probe = NoProbe
    /\ header_map = << >>
    /\ parsed = NotParsed
    /\ ksWriter = 0
    /\ refr = [r \in Refreshers |-> IdleRefr]
    /\ task = [pc |-> "tick", retry |-> "none", attempts |-> 0]
    /\ req = [q \in Requests |-> IdleReq]
    /\ cel_programs = {}
    /\ upgr = 0
    /\ compiles = [c \in CelStrs |-> 0]

\* key_store.rs:26 and 52: SystemTime::now() a second later
Elapse ==
    /\ now < MaxProbeNow
    /\ now' = now + 1
    /\ probe' = NoProbe
    /\ UNCHANGED <<ks, ksWriter, refr, task, req, cel_programs, upgr, compiles,
                   header_map, parsed>>

\* key_store.rs:23-41 and 49-63: should_refresh() and still_valid() are called
AskKeyStore ==
    /\ ~probe.asked
    /\ probe' = [asked |-> TRUE, at |-> now,
                 valid |-> still_valid(ks, now), due |-> should_refresh(ks, now)]
    /\ UNCHANGED <<now, ks, ksWriter, refr, task, req, cel_programs, upgr,
                   compiles, header_map, parsed>>

NextKey == Elapse \/ AskKeyStore

KeySpec == InitKey /\ [][NextKey]_vars

\* The policy cache on its own: concurrent requests with the keys loaded and
\* valid.  A compile, an execute or an insert that can run does run; the
\* parking_lot lock is task-fair, so a request that keeps finding the lock
\* free from time to time gets it.
NextCache ==
    \/ \E q \in Requests : Start(q)
    \/ \E q \in Requests : StillValid(q)
    \/ \E q \in Requests : Verify(q)
    \/ \E q \in Requests : Lookup(q)
    \/ \E q \in Requests : CompileProgram(q)
    \/ \E q \in Requests : ExecuteProgram(q)
    \/ \E q \in Requests : InsertProgram(q)

CacheLive ==
    /\ Init
    /\ [][NextCache]_vars
    /\ \A q \in Requests :
          /\ SF_vars(Lookup(q))
          /\ WF_vars(CompileProgram(q))
          /\ WF_vars(ExecuteProgram(q))
          /\ WF_vars(InsertProgram(q))

\* ------------------------------------------------- context_headers.rs
\* Header fields as they arrive: a name and the bytes of a value.  "b" and "c"
\* are visible ASCII, "caf<c3a9>" is UTF-8 text that is not ASCII, and
\* "bar<c5c4d6>foo" is no UTF-8 at all.
HeaderNames == {"a", "foo"}
HeaderValues == {"b", "c", "caf<c3a9>", "bar<c5c4d6>foo"}
Fields == [name : HeaderNames, value : HeaderValues]

IsVisibleAscii(hv) == hv \in {"b", "c"}
IsUtf8(hv) == hv \in {"b", "c", "caf<c3a9>"}

NoName == "<none>"
NoPrev == [hn |-> NoName, hvs |-> << >>]

\* The values that arrived under name n, in arrival order.
ValuesOf(arrived, n) ==
    LET hit == SelectSeq(arrived, LAMBDA f : f.name = n)
    IN [i \in 1..Len(hit) |-> hit[i].value]

\* The names of the fields, each once, in the order of their first arrival.
RECURSIVE NameOrder(_)
NameOrder(arrived) ==
    IF arrived = << >> THEN << >>
    ELSE LET rest == NameOrder(SubSeq(arrived, 1, Len(arrived) - 1))
             n == arrived[Len(arrived)].name
         IN IF \E i \in 1..Len(rest) : rest[i] = n THEN rest ELSE Append(rest, n)

\* context_headers.rs:27: header_map.into_iter(): the values of one name come
\* together, the first with Some(name), the others with None.
RECURSIVE IntoIter(_, _)
IntoIter(arrived, names) ==
    IF names = << >> THEN << >>
    ELSE LET vs == ValuesOf(arrived, Head(names))
         IN [i \in 1..Len(vs) |->
                [hn |-> IF i = 1 THEN Head(names) ELSE NoName, hv |-> vs[i]]]
            \o IntoIter(arrived, Tail(names))

\* context_headers.rs:9-14: to_str() is Ok for visible ASCII only.
to_cel_value(hv) ==
    IF IsVisibleAscii(hv) THEN [type |-> "String", s |-> hv]
    ELSE [type |-> "Bytes", b |-> hv]

\* header_values_to_value that always builds the list.
header_values_always_list(hvs) ==
    [type |-> "List", items |-> [i \in 1..Len(hvs) |-> to_cel_value(hvs[i])]]

\* context_headers.rs:8-22
header_values_to_value(hvs) ==
    LET vs == [i \in 1..Len(hvs) |-> to_cel_value(hvs[i])]
    IN IF Len(vs) = 1 THEN vs[1] ELSE [type |-> "List", items |-> vs]

\* HashMap::insert
MapInsert(out, k, v) ==
    [x \in DOMAIN out \cup {k} |-> IF x = k THEN v ELSE out[x]]

\* context_headers.rs:27-48: the fold over the iterator; its value is the
\* accumulator left at the end together with the map filled so far.
RECURSIVE Fold(_, _, _)
Fold(items, prev, out) ==
    IF items = << >> THEN [last |-> prev, out |-> out]
    ELSE LET h == Head(items)
         IN IF h.hn # NoName
            THEN Fold(Tail(items), [hn |-> h.hn, hvs |-> <<h.hv>>],
                      IF prev # NoPrev
                      THEN MapInsert(out, prev.hn, header_values_to_value(prev.hvs))
                      ELSE out)
            ELSE Fold(Tail(items), [prev EXCEPT !.hvs = Append(@, h.hv)], out)

\* context_headers.rs:24-54
parse_headers(arrived) ==
    LET f == Fold(IntoIter(arrived, NameOrder(arrived)), NoPrev, << >>)
    IN IF f.last # NoPrev
       THEN MapInsert(f.out, f.last.hn, header_values_to_value(f.last.hvs))
       ELSE f.out

HeaderMaps == UNION {[1..n -> Fields] : n \in 0..MaxHeaders}

InitHeader ==
    /\ now = 0
    /\ ks = Loaded(50, None)
    /\ probe = NoProbe
    /\ header_map \in HeaderMaps
    /\ parsed = NotParsed
    /\ ksWriter = 0
    /\ refr = [r \in Refreshers |-> IdleRefr]
    /\ task = [pc |-> "tick", retry |-> "none", attempts |-> 0]
    /\ req = [q \in Requests |-> IdleReq]
    /\ cel_programs = {}
    /\ upgr = 0
    /\ compiles = [c \in CelStrs |-> 0]

\* lib.rs:108: context_headers::parse_headers(rq.headers().to_owned())
ParseHeaders ==
    /\ ~parsed.done
    /\ parsed' = [done |-> TRUE, map |-> parse_headers(header_map)]
    /\ UNCHANGED <<now, ks, ksWriter, refr, task, req, cel_programs, upgr,
                   compiles, probe, header_map>>

NextHeader == ParseHeaders

HeaderSpec == InitHeader /\ [][NextHeader]_vars

\* =================================================================== claims
Finished(q) == req[q].pc = "done"
Busy(r) == refr[r].pc \in {"fetching", "storing"}

\* C1: a request is answered 200 only if it carried a bearer token, still_valid()
\* returned true, verify() succeeded, a policy source was given, the policy was
\* cached or compiled, and its execution returned the boolean true; every answer
\* is 200, 401 or 500.
C1_AllowOnlyAfterAllChecks ==
    \A q \in Requests :
        /\ Finished(q) => req[q].resp \in {200, 401, 500}
        /\ req[q].resp = 200 =>
              /\ req[q].bearer
              /\ req[q].sv = "true"
              /\ req[q].vr = "true"
              /\ req[q].cel \in CelStrs
              /\ req[q].prog \in {"hit", "compiled"}
              /\ req[q].res = "true"

\* C1 witness: a request has been answered 200.
C1_Witness == \E q \in Requests : Finished(q) /\ req[q].resp = 200

\* C2 (as claimed): no 200 answer comes from a verify() that ran on a key set
\* that was expired at the moment of verification.
C2_NoAllowOnExpiredKeys ==
    \A q \in Requests : req[q].resp = 200 => ~req[q].expiredAtVerify

\* The answer of a finished request as the fixed order of steps gives it.
FirstFailure(r) ==
    IF ~r.bearer THEN 401
    ELSE IF r.sv = "false" THEN 500
    ELSE IF r.vr = "false" THEN 401
    ELSE IF r.cel = "absent" THEN 401
    ELSE IF r.prog = "failed" THEN 500
    ELSE IF r.res = "error" THEN 500
    ELSE IF r.res = "false" THEN 401
    ELSE IF r.res = "nonbool" THEN 500
    ELSE 200

\* C3: the answer of every request is that of its first failing step in the
\* order token, still_valid, verify, cel_str, compile, execute, result; no
\* later step has run once a step failed.
C3_FirstFailingStepDecides ==
    \A q \in Requests : Finished(q) =>
        /\ req[q].resp = FirstFailure(req[q])
        /\ ~req[q].bearer => req[q].sv = "none"
        /\ req[q].sv # "true" => req[q].vr = "none"
        /\ (req[q].vr # "true" \/ req[q].cel = "absent") => req[q].prog = "none"
        /\ req[q].prog \in {"none", "failed"} => req[q].res = "none"

\* C3 witness: with the keys expired, one request without a token has been
\* answered 401 and another, with a token, 500.
C3_Witness ==
    /\ ~still_valid(ks, now)
    /\ \E q, p \in Requests :
          /\ Finished(q) /\ ~req[q].bearer /\ req[q].resp = 401
          /\ Finished(p) /\ req[p].bearer /\ req[p].sv = "false" /\ req[p].resp = 500

\* C4 (as claimed): a tick of the refresh task at which should_refresh() was
\* true has executed refresh() at least once.
C4_DueTickRunsRefresh == task.retry = "dropped" => task.attempts >= 1

\* C5: a compilable source is compiled at most once, a cached source exactly
\* once; every source compiled is cached or about to be inserted by the request
\* that compiled it; a request compiles only a source that is not cached, and
\* every execution ran a compiled program.
C5_CompileOnce ==
    /\ \A c \in CelStrs : compiles[c] <= 1
    /\ \A c \in cel_programs : compiles[c] = 1
    /\ {c \in CelStrs : compiles[c] >= 1} =
          cel_programs \cup {req[q].cel : q \in {p \in Requests :
                                 req[p].pc \in {"execute", "insert"}
                                 /\ req[p].prog = "compiled"}}
    /\ \A q \in Requests :
          /\ (req[q].pc \in {"execute", "insert"} /\ req[q].prog = "compiled")
                => req[q].cel \notin cel_programs
          /\ req[q].res # "none" => req[q].prog \in {"hit", "compiled"}

\* C5 witness: two requests carry the same uncached source at the same time, one
\* has compiled it and the other is at the lookup; a second source is cached.
C5_Witness ==
    \E q, p \in Requests :
        /\ q # p
        /\ req[q].pc = "insert"
        /\ req[p].pc = "lookup"
        /\ req[p].cel = req[q].cel
        /\ cel_programs # {}

\* C6: a source that fails to compile is never in the cache, the request is
\* answered 500, the step leaves the cache as it was, and every request with
\* such a source compiles it again.
C6_FailureNotCached ==
    /\ [](\A c \in cel_programs : Compiles(c))
    /\ [](\A q \in Requests :
            (Finished(q) /\ req[q].prog # "none" /\ ~Compiles(req[q].cel))
               => (req[q].prog = "failed" /\ req[q].resp = 500))
    /\ [][\A q \in Requests :
            (req[q].pc = "compile" /\ ~Compiles(req[q].cel) /\ req'[q].pc = "done")
               => (cel_programs' = cel_programs /\ req'[q].resp = 500)]_vars

\* C6 witness: both requests carried the uncompilable source, one after the
\* other; the first was answered 500 and the second is compiling it again.
C6_Witness ==
    \E q, p \in Requests :
        /\ Finished(q) /\ req[q].prog = "failed"
        /\ req[p].pc = "compile" /\ req[p].cel = req[q].cel
        /\ cel_programs # {}

\* C7 (as claimed): while the fetch of a refresh is in flight, reads of the key
\* set are admitted.
C7_ReadsNotBlockedByFetch ==
    \A r \in Refreshers : refr[r].pc = "fetching" => ReadFree

\* C8 (as claimed): a request that is compiling or executing a policy does not
\* keep another request from its lookup.
C8_LookupsShared ==
    \A q, p \in Requests :
        (req[q].pc \in {"compile", "execute"} /\ req[p].pc = "lookup")
            => UpgradableFree

\* C10: at most one refresh is mutating the key set, the key set is whole
\* whenever no refresh holds it, and every still_valid(), should_refresh() and
\* verify() saw a whole key set.
C10_RefreshAtomic ==
    /\ Cardinality({r \in Refreshers : Busy(r)}) <= 1
    /\ ksWriter = 0 => Whole(ks)
    /\ \A q \in Requests : req[q].whole
    /\ \A r \in Refreshers : refr[r].whole

\* C10 witness: a refresh has stored the new keys but not yet their timestamps,
\* while a second refresh and a request's verify() wait.
C10_Witness ==
    \E r1, r2 \in Refreshers, q \in Requests :
        /\ r1 # r2
        /\ refr[r1].pc = "storing" /\ ~Whole(ks)
        /\ refr[r2].pc = "due"
        /\ req[q].pc = "verify"

HasLoaded == ks.last_load_time # None
NoDirective == ks.expire_time = None /\ ks.refresh_time = None

\* C12: still_valid() is false while nothing is loaded; for a loaded key set
\* without expiry signal it is true exactly when now <= last_load_time + 300,
\* whatever the refresh_interval.
C12_ValidityCeiling ==
    probe.asked =>
        /\ ~HasLoaded => ~probe.valid
        /\ (HasLoaded /\ ks.expire_time = None) =>
              /\ probe.valid = (probe.at <= ks.last_load_time + 300)
              /\ \A ri \in ProbeIntervals :
                    still_valid([ks EXCEPT !.refresh_interval = ri], probe.at)
                        = probe.valid

\* C12 witness: with a multiplier of 1.5 and no directive the keys are asked
\* after last_load_time + 300 and before the refresh is due: not valid, not due.
C12_Witness ==
    /\ probe.asked /\ HasLoaded /\ NoDirective
    /\ ks.refresh_interval = 150
    /\ probe.at > ks.last_load_time + 300
    /\ ~probe.valid /\ ~probe.due

C19_ExpiredIsDue ==
    (probe.asked /\ HasLoaded /\ NoDirective /\ ks.refresh_interval \in 0..100)
        => (~probe.valid => probe.due)

\* C19 witness: in the fallback case with multiplier 1 the keys are asked after
\* last_load_time + 300: expired and due.
C19_Witness ==
    /\ probe.asked /\ HasLoaded /\ NoDirective
    /\ ks.refresh_interval = 100
    /\ ~probe.valid /\ probe.due

\* C14: the cache only grows; it changes only by the insert of a request that
\* holds the lock, and an insert is only made for a source that is not cached,
\* so no stored program is ever replaced.
C14_AppendOnly ==
    [][/\ cel_programs \subseteq cel_programs'
       /\ cel_programs' # cel_programs =>
             \E q \in Requests :
                 /\ req[q].pc = "insert" /\ upgr = q
                 /\ cel_programs' = cel_programs \cup {req[q].cel}
       /\ \A q \in Requests :
             (req[q].pc = "insert" /\ req'[q].pc = "done")
                 => req[q].cel \notin cel_programs]_vars

\* C14 witness: both compilable sources are cached and a request is about to
\* insert nothing new: it has hit the cache.
C14_Witness ==
    /\ Cardinality(cel_programs) = 2
    /\ \E q \in Requests : Finished(q) /\ req[q].prog = "hit"

\* C15: every step of a request, and every should_refresh() of a caller, leaves
\* the key set, its lock and the refreshes in progress as they were; the key
\* set changes only in a step of the refresh that holds the write lock.
C15_OnlyRefreshMutates ==
    [][/\ (\E q \in Requests : req'[q] # req[q])
             => (ks' = ks /\ ksWriter' = ksWriter /\ refr' = refr)
       /\ ks' # ks => \E r \in Refreshers : Busy(r) /\ ksWriter = r
       /\ \A r \in Refreshers :
             (refr[r].pc = "idle" /\ refr'[r].pc = "due") => ks' = ks]_vars

\* C15 witness: a request has been answered 500 for expired keys, and the key
\* set is still the one loaded at startup, with no refresh under way.
C15_Witness ==
    /\ \E q \in Requests : Finished(q) /\ req[q].sv = "false" /\ req[q].resp = 500
    /\ ks.last_load_time = 0 /\ ks.keys = 0
    /\ \A r \in Refreshers : refr[r].pc = "idle"

\* C18: a request that compiled its policy on a miss has inserted it whatever
\* the execution returned, and a request compiles only a source that is not
\* cached: once inserted, the source is a hit for every later request.
C18_InsertedWhateverTheResult ==
    \A q \in Requests :
        /\ (Finished(q) /\ req[q].prog = "compiled") => req[q].cel \in cel_programs
        /\ req[q].pc = "compile" => req[q].cel \notin cel_programs
        /\ (req[q].pc = "execute" /\ req[q].cel \in cel_programs)
              => req[q].prog = "hit"

\* C18 witness: the first execution of a freshly compiled policy failed (500),
\* and a later request with the same source has hit the cache.
C18_Witness ==
    \E q, p \in Requests :
        /\ Finished(q) /\ req[q].prog = "compiled"
        /\ req[q].res = "error" /\ req[q].resp = 500
        /\ Finished(p) /\ req[p].prog = "hit" /\ req[p].cel = req[q].cel

InLookup(q) == req[q].pc \in {"lookup", "compile", "execute", "insert"}

\* C20: every request that has come to the lookup step finishes it and gives
\* the cache lock back.
C20_LookupTerminates ==
    \A q \in Requests : InLookup(q) ~> (Finished(q) /\ upgr # q)

\* C20 witness: one request holds the lock at the insert of an uncached policy
\* while another, with an uncompilable policy, waits for the lock and a third
\* policy is cached.
C20_Witness ==
    \E q, p \in Requests :
        /\ req[q].pc = "insert" /\ upgr = q
        /\ req[p].pc = "lookup" /\ ~Compiles(req[p].cel)
        /\ cel_programs # {}

ArrivedNames == {header_map[i].name : i \in 1..Len(header_map)}
Payload(x) == IF x.type = "String" THEN x.s ELSE x.b

\* C16: parse_headers gives one entry per distinct name; a name with one value
\* maps to that value as a scalar, a name with N > 1 values to a list of the N
\* values in arrival order; no field, no entry.
C16_OneEntryPerName ==
    parsed.done =>
        /\ DOMAIN parsed.map = ArrivedNames
        /\ \A n \in ArrivedNames :
              LET vals == ValuesOf(header_map, n)
                  x == parsed.map[n]
              IN IF Len(vals) = 1
                 THEN x.type \in {"String", "Bytes"} /\ Payload(x) = vals[1]
                 ELSE /\ x.type = "List"
                      /\ Len(x.items) = Len(vals)
                      /\ \A i \in 1..Len(vals) :
                            /\ x.items[i].type \in {"String", "Bytes"}
                            /\ Payload(x.items[i]) = vals[i]

\* C16 witness: a: b, foo: c, a: c arrived, the two values of a apart; a maps
\* to the list of b and c and foo to a scalar.
C16_Witness ==
    /\ parsed.done
    /\ Len(header_map) = 3
    /\ header_map[1] = [name |-> "a", value |-> "b"]
    /\ header_map[2].name = "foo"
    /\ header_map[3] = [name |-> "a", value |-> "c"]
    /\ parsed.map["a"].type = "List"
    /\ parsed.map["foo"].type # "List"

\* The scalar values of an entry of the parsed map.
Scalars(x) == IF x.type = "List" THEN {x.items[i] : i \in 1..Len(x.items)} ELSE {x}

\* C17 (as claimed): every value that is valid UTF-8 has become a string and
\* every other value a byte sequence of the same bytes.
C17_Utf8DecidesType ==
    parsed.done =>
        \A n \in DOMAIN parsed.map : \A x \in Scalars(parsed.map[n]) :
            x.type = IF IsUtf8(Payload(x)) THEN "String" ELSE "Bytes"

====
